---- MODULE Spec2Model ----
(***************************************************************************)
(* Model of the C++ topic classifier (classify.py) and its HTTP front end  *)
(* (app.py).                                                               *)
(*                                                                         *)
(* Texts and masks are functions over 0..L-1, so every index below is the  *)
(* index the Python source uses.  A vote ratio is a pair <<num, den>> of   *)
(* integers standing for the rational num/den (SIZE_RATIO = 1.2 is         *)
(* <<6, 5>>); the comparison  buf >= win / ratio  is evaluated exactly as  *)
(* buf * num >= win * den.                                                 *)
(***************************************************************************)
EXTENDS Integers, Sequences, FiniteSets, TLC

VARIABLES
    code,             \* the text being classified (0-based function of characters)
    topic,            \* the topic of the current call
    win,              \* window size handed to sliding_window_mask
    ratio,            \* the value of SIZE_RATIO read at the threshold, <<num, den>>
    clf,              \* the topic's estimator: the set of snippets it predicts 1 for
    s,                \* loop variable of sliding_window_mask
    buf,              \* the vote buffer
    queries,          \* the windows <<s, e>> handed to _predict_window so far
    init_mask,        \* argument init_mask of bracket_matching_classification
    classifications,  \* local list of bracket_matching_classification
    i,                \* loop variable of bracket_matching_classification
    line_start,       \* local of the line branch
    level,            \* local of the brace branch
    highlight,        \* local of the brace branch
    final_mask,       \* array returned by bracket_matching_classification
    again,            \* result of calling it once more on final_mask
    pc,               \* position in the code
    request,          \* the POST /classify request being served (app.py)
    estimators,       \* model.estimators_, one estimator per class of mlb
    response,         \* the response of POST /classify
    output            \* what the command line helper wrote

vars == << code, topic, win, ratio, clf, s, buf, queries, init_mask,
           classifications, i, line_start, level, highlight, final_mask,
           again, pc, request, estimators, response, output >>

windowVars == << s, buf, queries >>
scanVars   == << classifications, i, line_start, level, highlight >>
inputVars  == << code, topic, win, ratio, clf >>
appVars    == << request, estimators, response, output >>

----------------------------------------------------------------------------
(* Bounds of the model *)

MaxLen == 3        \* longest text of the full pipeline
MaxWin == 4        \* largest window size of the full pipeline
MaxScanLen == 5    \* longest text handed directly to the scope expansion
MaxFileLen == 4    \* longest uploaded file (besides the fixed long one)

----------------------------------------------------------------------------
(* Configuration, classify.py:37-52 *)

None == "None"

topic_names ==
    << "operator overload", "virtual function", "friend", "Inheritance",
       "inline", "Namespaces", "Recursion", "templates", "Classes",
       "Smart_Pointers", "fpoint", "Try_Catch" >>

topic_window_sizes ==
    ("operator overload" :> 20) @@ ("virtual function" :> 40) @@
    ("friend" :> 40) @@ ("Inheritance" :> 60) @@ ("inline" :> 10) @@
    ("Namespaces" :> 40) @@ ("Recursion" :> 20) @@ ("templates" :> 40) @@
    ("Classes" :> 20) @@ ("Smart_Pointers" :> 50) @@ ("fpoint" :> 40) @@
    ("Try_Catch" :> 60)

SIZE_RATIO == << 6, 5 >>

\* The classes of the loaded label binarizer: every configured topic but the
\* two the configuration marks "skipped (not in classes)".
mlb_classes ==
    { topic_names[k] : k \in 1..Len(topic_names) } \ { "Smart_Pointers", "fpoint" }

\* The topics that take the line branch of bracket_matching_classification.
LineTopics == { "virtual function", "Namespaces" }

----------------------------------------------------------------------------
(* Helpers *)

Min(a, b) == IF a <= b THEN a ELSE b

Length(f) == Cardinality(DOMAIN f)

FromSeq(sq) == [k \in 0..(Len(sq) - 1) |-> sq[k + 1]]

\* code[a:e] as a sequence, for 0 <= a and e <= len(code); empty when e <= a
Slice(txt, a, e) == [k \in 1..(e - a) |-> txt[a + k - 1]]

Zeros(txt) == [k \in DOMAIN txt |-> 0]

----------------------------------------------------------------------------
(* sliding_window_mask, classify.py:67-77 *)

predict_window(snippet, c) == snippet \in c

\* Faulty variant: only the start offset of an accepted window gets the vote.
WindowStepStartOnly(txt, w, c, st, start) ==
    LET e   == Min(start + w, Length(txt))
        hit == predict_window(Slice(txt, start, e), c)
    IN  [ buf     |-> [k \in DOMAIN st.buf |->
                          IF hit /\ k = start THEN st.buf[k] + 1 ELSE st.buf[k]],
          queries |-> Append(st.queries, << start, e >>) ]

\* One iteration of the loop "for s in range(L)".
WindowStep(txt, w, c, st, start) ==
    LET e   == Min(start + w, Length(txt))
        hit == predict_window(Slice(txt, start, e), c)
    IN  [ buf     |-> [k \in DOMAIN st.buf |->
                          IF hit /\ start <= k /\ k < e
                          THEN st.buf[k] + 1 ELSE st.buf[k]],
          queries |-> Append(st.queries, << start, e >>) ]

\* Faulty variant: the threshold is win * SIZE_RATIO.
ThresholdTimes(votes, w, r) ==
    [k \in DOMAIN votes |-> IF votes[k] * r[2] >= w * r[1] THEN 1 ELSE 0]

\* Faulty variant: the operands of the division are swapped, SIZE_RATIO / win.
ThresholdSwapped(votes, w, r) ==
    [k \in DOMAIN votes |-> IF votes[k] * r[2] * w >= r[1] THEN 1 ELSE 0]

\* Faulty variant: floor division, win // SIZE_RATIO.
ThresholdFloor(votes, w, r) ==
    [k \in DOMAIN votes |-> IF votes[k] >= (w * r[2]) \div r[1] THEN 1 ELSE 0]

\* (buf >= (win / SIZE_RATIO)).astype(int)
Threshold(votes, w, r) ==
    [k \in DOMAIN votes |-> IF votes[k] * r[1] >= w * r[2] THEN 1 ELSE 0]

RECURSIVE WindowScan(_, _, _, _)
WindowScan(txt, w, c, n) ==
    IF n = 0
    THEN [ buf |-> Zeros(txt), queries |-> << >> ]
    ELSE WindowStep(txt, w, c, WindowScan(txt, w, c, n - 1), n - 1)

sliding_window_mask(txt, w, c, r) ==
    Threshold(WindowScan(txt, w, c, Length(txt)).buf, w, r)

----------------------------------------------------------------------------
(* bracket_matching_classification, classify.py:79-109 *)

\* Faulty variant: the mask is read one position to the right.
InitClassificationsShifted(txt, tpc, mask) ==
    [k \in DOMAIN txt |->
        IF k + 1 \in DOMAIN mask /\ mask[k + 1] # 0 THEN tpc ELSE None]

\* classifications = [topic if init_mask[i] else None for i in range(L)]
InitClassifications(txt, tpc, mask) ==
    [k \in DOMAIN txt |-> IF mask[k] # 0 THEN tpc ELSE None]

MarkRange(cls, tpc, lo, hi) ==
    [k \in DOMAIN cls |-> IF lo <= k /\ k < hi THEN tpc ELSE cls[k]]

\* Body of "while i < L" in the line branch, for index idx.
LineStep(txt, tpc, st, idx) ==
    IF txt[idx] = "\n"
    THEN [ cls |-> IF \E j \in st.line_start..(idx - 1) : st.cls[j] = tpc
                   THEN MarkRange(st.cls, tpc, st.line_start, idx)
                   ELSE st.cls,
           line_start |-> idx + 1 ]
    ELSE st

\* Faulty variant: the last line, which no newline ends, is never completed.
LineTailMissing(tpc, st, len) == st.cls

\* The statements after the loop of the line branch (the last line).
LineTail(tpc, st, len) ==
    IF \E j \in st.line_start..(len - 1) : st.cls[j] = tpc
    THEN MarkRange(st.cls, tpc, st.line_start, len)
    ELSE st.cls

\* Faulty variant: "{" is counted when the character itself was classified on entry,
\* instead of when highlight is set.
BraceStepCountsClassified(tpc, st, ch, idx) ==
    LET h1   == st.highlight \/ st.cls[idx] = tpc
        l1   == IF ch = "{" /\ st.cls[idx] = tpc THEN st.level + 1 ELSE st.level
        cls1 == IF h1 THEN [st.cls EXCEPT ![idx] = tpc] ELSE st.cls
        l2   == IF ch = "}" /\ h1 THEN l1 - 1 ELSE l1
        h2   == IF ch = "}" /\ h1 /\ l2 <= 0 THEN FALSE ELSE h1
    IN  [ cls |-> cls1, level |-> l2, highlight |-> h2 ]

\* Faulty variant: the closing brace is handled before the character is marked.
BraceStepEarlyClose(tpc, st, ch, idx) ==
    LET h1   == st.highlight \/ st.cls[idx] = tpc
        l1   == IF ch = "{" /\ h1 THEN st.level + 1 ELSE st.level
        l2   == IF ch = "}" /\ h1 THEN l1 - 1 ELSE l1
        h2   == IF ch = "}" /\ h1 /\ l2 <= 0 THEN FALSE ELSE h1
        cls1 == IF h2 THEN [st.cls EXCEPT ![idx] = tpc] ELSE st.cls
    IN  [ cls |-> cls1, level |-> l2, highlight |-> h2 ]

\* Faulty variant: every "}" seen while highlighting ends the highlight.
BraceStepAlwaysClose(tpc, st, ch, idx) ==
    LET h1   == st.highlight \/ st.cls[idx] = tpc
        l1   == IF ch = "{" /\ h1 THEN st.level + 1 ELSE st.level
        cls1 == IF h1 THEN [st.cls EXCEPT ![idx] = tpc] ELSE st.cls
        l2   == IF ch = "}" /\ h1 THEN l1 - 1 ELSE l1
        h2   == IF ch = "}" /\ h1 THEN FALSE ELSE h1
    IN  [ cls |-> cls1, level |-> l2, highlight |-> h2 ]

\* Body of "for i, ch in enumerate(code)" in the brace branch.
BraceStep(tpc, st, ch, idx) ==
    LET h1   == st.highlight \/ st.cls[idx] = tpc
        l1   == IF ch = "{" /\ h1 THEN st.level + 1 ELSE st.level
        cls1 == IF h1 THEN [st.cls EXCEPT ![idx] = tpc] ELSE st.cls
        l2   == IF ch = "}" /\ h1 THEN l1 - 1 ELSE l1
        h2   == IF ch = "}" /\ h1 /\ l2 <= 0 THEN FALSE ELSE h1
    IN  [ cls |-> cls1, level |-> l2, highlight |-> h2 ]

\* np.array([1 if classifications[i] == topic else 0 for i in range(L)])
FinalArray(txt, tpc, cls) ==
    [k \in DOMAIN txt |-> IF cls[k] = tpc THEN 1 ELSE 0]

RECURSIVE LineScan(_, _, _, _)
LineScan(txt, tpc, st0, n) ==
    IF n = 0 THEN st0
    ELSE LineStep(txt, tpc, LineScan(txt, tpc, st0, n - 1), n - 1)

RECURSIVE BraceScan(_, _, _, _)
BraceScan(txt, tpc, st0, n) ==
    IF n = 0 THEN st0
    ELSE BraceStep(tpc, BraceScan(txt, tpc, st0, n - 1), txt[n - 1], n - 1)

bracket_matching_classification(txt, tpc, mask) ==
    LET cls0 == InitClassifications(txt, tpc, mask)
        len  == Length(txt)
    IN  IF tpc \in LineTopics
        THEN FinalArray(txt, tpc,
                 LineTail(tpc,
                     LineScan(txt, tpc, [cls |-> cls0, line_start |-> 0], len),
                     len))
        ELSE FinalArray(txt, tpc,
                 BraceScan(txt, tpc,
                     [cls |-> cls0, level |-> 0, highlight |-> FALSE], len).cls)

----------------------------------------------------------------------------
(* Inputs *)

\* The topics the calls below are made for: both line-scoped topics and one
\* of the topics that take the brace branch.
CheckedTopics == { "virtual function", "Namespaces", "Classes" }

\* The characters the branch taken for a topic tells apart, and one other.
Alphabet(tpc) == IF tpc \in LineTopics THEN { "a", "\n" } ELSE { "a", "{", "}" }

Texts(alpha, n) == UNION { [0..(k - 1) -> alpha] : k \in 0..n }

Ratios == { << 1, 2 >>, << 1, 1 >>, SIZE_RATIO, << 2, 1 >> }

\* The snippets sliding_window_mask hands to the estimator.
Windows(txt, w) ==
    { Slice(txt, a, Min(a + w, Length(txt))) : a \in DOMAIN txt }

ExampleText == FromSeq(<< "x", "x", "{", "y", "y", "}", "z", "z" >>)

ContainsYY(snippet) ==
    \E k \in 1..(Length(snippet) - 1) : snippet[k] = "y" /\ snippet[k + 1] = "y"

\* An estimator that predicts 1 exactly for the snippets containing "yy".
ExampleOracle == { w \in Windows(ExampleText, 2) : ContainsYY(w) }

NoApp ==
    /\ request = None
    /\ estimators = None
    /\ response = None
    /\ output = None

----------------------------------------------------------------------------
(* The pipeline of one topic: classify.py:170-171 *)

Init ==
    /\ \/ /\ topic \in CheckedTopics
          /\ code \in Texts(Alphabet(topic), MaxLen)
          /\ win \in 1..MaxWin
          /\ ratio \in Ratios
          /\ clf \in SUBSET Windows(code, win)
       \/ /\ topic = "Classes"
          /\ code = ExampleText
          /\ win = 2
          /\ ratio \in { << 1, 1 >>, << 2, 1 >> }
          /\ clf = ExampleOracle
    /\ s = 0
    /\ buf = Zeros(code)
    /\ queries = << >>
    /\ init_mask = << >>
    /\ classifications = << >>
    /\ i = 0
    /\ line_start = 0
    /\ level = 0
    /\ highlight = FALSE
    /\ final_mask = << >>
    /\ again = << >>
    /\ pc = "sliding"
    /\ NoApp

\* for s in range(L): ...
WindowIter ==
    /\ pc = "sliding"
    /\ s < Length(code)
    /\ LET st == WindowStep(code, win, clf, [buf |-> buf, queries |-> queries], s)
       IN  /\ buf' = st.buf
           /\ queries' = st.queries
    /\ s' = s + 1
    /\ UNCHANGED << inputVars, init_mask, scanVars, final_mask, again, pc, appVars >>

\* return (buf >= (win / SIZE_RATIO)).astype(int), handed on as init_mask
WindowReturn ==
    /\ pc = "sliding"
    /\ s = Length(code)
    /\ init_mask' = Threshold(buf, win, ratio)
    /\ pc' = "bracket"
    /\ UNCHANGED << inputVars, windowVars, scanVars, final_mask, again, appVars >>

\* Entry of bracket_matching_classification up to the branch.
BracketEnter ==
    /\ pc = "bracket"
    /\ classifications' = InitClassifications(code, topic, init_mask)
    /\ i' = 0
    /\ line_start' = 0
    /\ level' = 0
    /\ highlight' = FALSE
    /\ pc' = IF topic \in LineTopics THEN "line" ELSE "brace"
    /\ UNCHANGED << inputVars, windowVars, init_mask, final_mask, again, appVars >>

LineIter ==
    /\ pc = "line"
    /\ i < Length(code)
    /\ LET st == LineStep(code, topic,
                     [cls |-> classifications, line_start |-> line_start], i)
       IN  /\ classifications' = st.cls
           /\ line_start' = st.line_start
    /\ i' = i + 1
    /\ UNCHANGED << inputVars, windowVars, init_mask, level, highlight,
                    final_mask, again, pc, appVars >>

LineReturn ==
    /\ pc = "line"
    /\ i = Length(code)
    /\ LET cls == LineTail(topic,
                      [cls |-> classifications, line_start |-> line_start],
                      Length(code))
       IN  /\ classifications' = cls
           /\ final_mask' = FinalArray(code, topic, cls)
    /\ pc' = "done"
    /\ UNCHANGED << inputVars, windowVars, init_mask, i, line_start, level,
                    highlight, again, appVars >>

BraceIter ==
    /\ pc = "brace"
    /\ i < Length(code)
    /\ LET st == BraceStep(topic,
                     [cls |-> classifications, level |-> level,
                      highlight |-> highlight], code[i], i)
       IN  /\ classifications' = st.cls
           /\ level' = st.level
           /\ highlight' = st.highlight
    /\ i' = i + 1
    /\ UNCHANGED << inputVars, windowVars, init_mask, line_start,
                    final_mask, again, pc, appVars >>

BraceReturn ==
    /\ pc = "brace"
    /\ i = Length(code)
    /\ final_mask' = FinalArray(code, topic, classifications)
    /\ pc' = "done"
    /\ UNCHANGED << inputVars, windowVars, init_mask, scanVars, again, appVars >>

\* A further call of bracket_matching_classification on the returned mask.
Reapply ==
    /\ pc = "done"
    /\ again' = bracket_matching_classification(code, topic, final_mask)
    /\ pc' = "reapplied"
    /\ UNCHANGED << inputVars, windowVars, init_mask, scanVars, final_mask, appVars >>

NextExpand ==
    \/ BracketEnter
    \/ LineIter
    \/ LineReturn
    \/ BraceIter
    \/ BraceReturn
    \/ Reapply

Next ==
    \/ WindowIter
    \/ WindowReturn
    \/ NextExpand

Spec == Init /\ [][Next]_vars

----------------------------------------------------------------------------
(* bracket_matching_classification called directly on any mask *)

InitExpand ==
    /\ topic \in CheckedTopics
    /\ code \in Texts(Alphabet(topic), MaxScanLen)
    /\ init_mask \in [DOMAIN code -> {0, 1}]
    /\ win = 1
    /\ ratio = SIZE_RATIO
    /\ clf = {}
    /\ s = 0
    /\ buf = Zeros(code)
    /\ queries = << >>
    /\ classifications = << >>
    /\ i = 0
    /\ line_start = 0
    /\ level = 0
    /\ highlight = FALSE
    /\ final_mask = << >>
    /\ again = << >>
    /\ pc = "bracket"
    /\ NoApp

SpecExpand == InitExpand /\ [][NextExpand]_vars

----------------------------------------------------------------------------
(* Vocabulary of the properties *)

L == Length(code)

Marked(mask) == { k \in DOMAIN mask : mask[k] # 0 }

WindowsDone == pc \in { "bracket", "line", "brace", "done", "reapplied" }

Returned == pc \in { "done", "reapplied" }

BraceScoped == topic \notin LineTopics

\* r1 <= r2 for two ratios
RatioLeq(r1, r2) == r1[1] * r2[2] <= r2[1] * r1[2]

\* a..b is a line of txt: a maximal run of characters other than newline
IsLine(txt, a, b) ==
    /\ a <= b
    /\ \A k \in a..b : txt[k] # "\n"
    /\ a = 0 \/ txt[a - 1] = "\n"
    /\ b = Length(txt) - 1 \/ txt[b + 1] = "\n"

Count(txt, ch, a, b) == Cardinality({ k \in a..b : txt[k] = ch })

\* opening minus closing braces of txt[a..b]
NetDepth(txt, a, b) == Count(txt, "{", a, b) - Count(txt, "}", a, b)

Balanced(txt) ==
    /\ NetDepth(txt, 0, Length(txt) - 1) = 0
    /\ \A k \in DOMAIN txt : NetDepth(txt, 0, k) >= 0

\* o is an opening brace and c the closing brace that matches it
IsBlock(txt, o, c) ==
    /\ o < c
    /\ txt[o] = "{"
    /\ txt[c] = "}"
    /\ NetDepth(txt, o, c) = 0
    /\ \A k \in o..(c - 1) : NetDepth(txt, o, k) > 0

SetMin(S) == CHOOSE x \in S : \A y \in S : x <= y

SetMax(S) == CHOOSE x \in S : \A y \in S : y <= x

\* First and last position set in the initial mask
First == SetMin(Marked(init_mask))

Last == SetMax(Marked(init_mask))

\* The case of the brace-block claim: a returned brace-scoped call on a text
\* with balanced braces whose initial mask is a single contiguous snippet.
SingleSnippet ==
    /\ Returned
    /\ BraceScoped
    /\ Marked(init_mask) # {}
    /\ Marked(init_mask) = First..Last
    /\ Balanced(code)

\* The blocks << o, c >> that have the snippet t..u strictly inside them
BlocksAround(txt, t, u) ==
    { blk \in (0..(t - 1)) \X ((u + 1)..(Length(txt) - 1)) :
          IsBlock(txt, blk[1], blk[2]) }

\* The block enclosing the snippet: the innermost of them, if there is one
EnclosingBlock(txt, t, u) ==
    { blk \in BlocksAround(txt, t, u) :
          \A other \in BlocksAround(txt, t, u) : other[1] <= blk[1] }

NoBraceBetween(txt, t, c) == \A k \in t..(c - 1) : txt[k] \notin { "{", "}" }

IsExample ==
    /\ code = ExampleText
    /\ BraceScoped
    /\ win = 2
    /\ ratio = << 1, 1 >>
    /\ clf = ExampleOracle

\* The highlight is about to switch from False to True (classify.py:98-99).
Activating ==
    /\ pc = "brace"
    /\ i < L
    /\ ~highlight
    /\ classifications[i] = topic

----------------------------------------------------------------------------
(* Properties *)

\* C1: monotonic expansion.  For every text, topic (brace-scoped or
\* line-scoped) and initial mask, every position set in the initial mask is
\* set in the mask bracket_matching_classification returns.
C1_Monotonic ==
    Returned =>
        /\ DOMAIN final_mask = DOMAIN code
        /\ \A k \in DOMAIN code : init_mask[k] # 0 => final_mask[k] = 1

C1_Witness ==
    /\ Returned
    /\ Marked(init_mask) # {}
    /\ Marked(final_mask) # Marked(init_mask)

\* C2: idempotence.  Applying bracket_matching_classification to its own
\* output, on the same text and topic, returns that output unchanged.
C2_Idempotent == pc = "reapplied" => again = final_mask

C2_Witness ==
    /\ pc = "reapplied"
    /\ BraceScoped
    /\ Marked(init_mask) # {}
    /\ Marked(final_mask) # Marked(init_mask)
    /\ Marked(final_mask) # DOMAIN code

\* C3, as stated: on "xx{yy}zz" with window 2, ratio 1.0 and an oracle true
\* exactly for the snippets containing "yy", the final mask of the
\* brace-scoped pipeline is set exactly at indices 2, 3, 4, 5.
C3_AsStated == (IsExample /\ pc = "done") => Marked(final_mask) = { 2, 3, 4, 5 }

\* C3, amended: on that input the only accepted window is "yy", indices 3 and
\* 4 get one vote each, which is below the threshold 2 / 1.0, so the initial
\* mask and the final mask are all false.
C3_ExampleEmpty ==
    (IsExample /\ pc = "done") =>
        /\ { k \in DOMAIN buf : buf[k] = 1 } = { 3, 4 }
        /\ { k \in DOMAIN buf : buf[k] = 0 } = { 0, 1, 2, 5, 6, 7 }
        /\ Marked(init_mask) = {}
        /\ Marked(final_mask) = {}

C3_Witness == IsExample /\ pc = "done" /\ Len(queries) = 8

\* C4: ratio monotonicity.  For a fixed text, window size and oracle, every
\* position set in the initial mask computed with a ratio r1 is set in the
\* initial mask computed with any ratio r2 >= r1.
C4_RatioMonotone ==
    WindowsDone =>
        \A r2 \in Ratios :
            RatioLeq(ratio, r2) =>
                \A k \in DOMAIN code :
                    init_mask[k] = 1 =>
                        sliding_window_mask(code, win, clf, r2)[k] = 1

C4_Witness ==
    /\ WindowsDone
    /\ Marked(init_mask) # {}
    /\ \E r2 \in Ratios :
          /\ RatioLeq(ratio, r2)
          /\ Marked(sliding_window_mask(code, win, clf, r2)) # Marked(init_mask)

\* C5: line-scoped expansion is all-or-nothing per line.  For every line (a
\* maximal run of characters other than newline, the last one included),
\* all its characters are set in the final mask if one of them is set in the
\* initial mask, and none is set if none is.
C5_LineAllOrNothing ==
    (Returned /\ ~BraceScoped) =>
        \A a, b \in DOMAIN code :
            IsLine(code, a, b) =>
                IF \E k \in a..b : init_mask[k] # 0
                THEN \A k \in a..b : final_mask[k] = 1
                ELSE \A k \in a..b : final_mask[k] = 0

C5_Witness ==
    /\ Returned
    /\ ~BraceScoped
    /\ \E a, b \in DOMAIN code :
          /\ IsLine(code, a, b)
          /\ b = L - 1
          /\ \E k \in a..b : init_mask[k] # 0
          /\ \E k \in a..b : init_mask[k] = 0
    /\ \E a, b \in DOMAIN code :
          /\ IsLine(code, a, b)
          /\ \A k \in a..b : init_mask[k] = 0

\* C6, as stated: with balanced braces and a mask that is one snippet inside
\* a brace block, the final mask covers every position from the first
\* triggering character through the closing brace of the enclosing block,
\* also when nested blocks open and close in between.  It is stated for the
\* snippets that hold no brace themselves, so that the braces in question
\* are those of the blocks around and after the snippet.
C6_AsStated ==
    (SingleSnippet /\ NoBraceBetween(code, First, Last + 1)) =>
        \A blk \in EnclosingBlock(code, First, Last) :
            \A k \in First..blk[2] : final_mask[k] = 1

\* C6, amended: the same, provided no brace stands between the first
\* triggering character and the closing brace of the enclosing block.
C6_CoversToClosingBrace ==
    SingleSnippet =>
        \A blk \in EnclosingBlock(code, First, Last) :
            NoBraceBetween(code, First, blk[2]) =>
                \A k \in First..blk[2] : final_mask[k] = 1

C6_Witness ==
    /\ SingleSnippet
    /\ \E blk \in EnclosingBlock(code, First, Last) :
          /\ NoBraceBetween(code, First, blk[2])
          /\ Last + 1 < blk[2]
          /\ blk[2] < L - 1

\* C7, as stated: when the window is larger than the text, the oracle is
\* evaluated on a single window covering the whole text and every position
\* ends with the same vote count.  (Stated for non-empty texts; on the empty
\* text the loop evaluates no window at all.)
C7_AsStated ==
    (WindowsDone /\ win > L /\ L >= 1) =>
        /\ Len(queries) = 1
        /\ queries[1] = << 0, L >>
        /\ \A j, k \in DOMAIN buf : buf[j] = buf[k]

\* C7, amended: when the window is larger than the text, the oracle is
\* evaluated once per start offset s, on the suffix text[s:L] (only the
\* first covers the whole text); position k ends with one vote per accepted
\* suffix starting at or before k, so the votes never decrease to the right.
C7_SuffixWindows ==
    (WindowsDone /\ win > L) =>
        /\ Len(queries) = L
        /\ \A k \in DOMAIN code :
              /\ queries[k + 1] = << k, L >>
              /\ buf[k] = Cardinality({ a \in 0..k : Slice(code, a, L) \in clf })
        /\ \A j, k \in DOMAIN buf : j <= k => buf[j] <= buf[k]

C7_Witness ==
    /\ WindowsDone
    /\ win > L
    /\ L >= 2
    /\ buf[0] < buf[L - 1]

\* C8: null oracle.  If the oracle accepts no snippet, the initial mask and
\* the final mask are all false and as long as the text, for every window
\* size >= 1, every ratio > 0 and both expansion strategies.
C8_NullOracle ==
    clf = {} =>
        /\ WindowsDone =>
              /\ DOMAIN init_mask = DOMAIN code
              /\ Marked(init_mask) = {}
        /\ Returned =>
              /\ DOMAIN final_mask = DOMAIN code
              /\ Marked(final_mask) = {}

C8_Witness == clf = {} /\ pc = "done" /\ L >= 2 /\ win < L

\* C10, as stated: every time highlight switches from False to True in the
\* brace scan, level equals 0.
C10_AsStated == Activating => level = 0

\* C10, amended: every time highlight switches from False to True, level is
\* at most 0; it is negative after a region was closed by a "}" that no "{"
\* of the region matches, and the scan never resets it.
C10_LevelNotPositive == Activating => level <= 0

C10_Witness == Activating /\ level < 0

----------------------------------------------------------------------------
(* _remove_comments, classify.py:60-63 *)

\* First index at or after p that ends the line (a newline, or the end of txt)
EndOfLine(txt, p) ==
    SetMin({ q \in p..Length(txt) : q = Length(txt) \/ txt[q] = "\n" })

\* re.sub(r"//.*", "", code): what is kept of txt from index p on
RECURSIVE StripLineComments(_, _)
StripLineComments(txt, p) ==
    IF p >= Length(txt) THEN << >>
    ELSE IF p + 1 < Length(txt) /\ txt[p] = "/" /\ txt[p + 1] = "/"
         THEN StripLineComments(txt, EndOfLine(txt, p))
         ELSE << txt[p] >> \o StripLineComments(txt, p + 1)

\* Indices q of a "*/" that can close a "/*" starting at p
Closers(txt, p) ==
    { q \in (p + 2)..(Length(txt) - 2) : txt[q] = "*" /\ txt[q + 1] = "/" }

\* re.sub(r"/\*[\s\S]*?\*/", "", code): what is kept of txt from index p on
RECURSIVE StripBlockComments(_, _)
StripBlockComments(txt, p) ==
    IF p >= Length(txt) THEN << >>
    ELSE IF /\ p + 1 < Length(txt)
            /\ txt[p] = "/"
            /\ txt[p + 1] = "*"
            /\ Closers(txt, p) # {}
         THEN StripBlockComments(txt, SetMin(Closers(txt, p)) + 2)
         ELSE << txt[p] >> \o StripBlockComments(txt, p + 1)

remove_comments(txt) ==
    FromSeq(StripBlockComments(FromSeq(StripLineComments(txt, 0)), 0))

----------------------------------------------------------------------------
(* _render_html and classify_code, classify.py:116-174 *)

\* The topics of the loop of classify_code that are not skipped, in the
\* order of the dictionary.
ClassifiedTopics == SelectSeq(topic_names, LAMBDA tpc : tpc \in mlb_classes)

\* What the page says of the classification: for every character, the
\* character and tags = [t for t, m in cls.items() if m[i]].
render_html(txt, masks) ==
    [k \in DOMAIN txt |->
        [ ch   |-> txt[k],
          tags |-> SelectSeq(ClassifiedTopics, LAMBDA tpc : masks[tpc][k] # 0) ]]

\* classify_code(code), reading the global model through est
classify_code(txt, est) ==
    LET stripped == remove_comments(txt)
        masks == [tpc \in mlb_classes |->
                     bracket_matching_classification(stripped, tpc,
                         sliding_window_mask(stripped, topic_window_sizes[tpc],
                                             est[tpc], SIZE_RATIO))]
    IN  render_html(stripped, masks)

\* The parameters classify_code declares.
classify_code_params == << "code" >>

\* The names module classify defines or imports at top level.
classify_names ==
    { "annotations", "argparse", "Path", "defaultdict", "Dict", "List", "Tuple",
      "os", "re", "joblib", "np", "MODEL_DIR", "MODEL_PATH", "VECT_PATH",
      "MLB_PATH", "model", "vectorizer", "mlb", "topic_window_sizes",
      "SIZE_RATIO", "topic_colors", "_remove_comments", "_predict_window",
      "sliding_window_mask", "bracket_matching_classification",
      "_render_html", "classify_code" }

----------------------------------------------------------------------------
(* POST /classify, app.py:1-44 *)

\* from classify import classify_code, _base_window_sizes
app_imports == { "classify_code", "_base_window_sizes" }

\* Whether a Python call with npos positional and the keyword arguments
\* kwnames binds to a function declaring params (no defaults, no **kwargs).
CallBinds(params, npos, kwnames) ==
    /\ npos <= Len(params)
    /\ kwnames = { params[k] : k \in (npos + 1)..Len(params) }

\* The form fields a request can carry besides file and size_ratio, and the
\* texts they can hold.
FormKeys == { "inline", "Try_Catch" }

FormTexts == { "", "-5", "0", "7" }

\* k.replace("_", " ")
ReplaceUnderscore(k) == IF k = "Try_Catch" THEN "Try Catch" ELSE k

\* int(v) raises ValueError on the empty text
IntParses(v) == v # ""

IntOf(v) == CASE v = "-5" -> -5 [] v = "0" -> 0 [] v = "7" -> 7

\* The dictionary custom built by the loop over form.items()
CustomWindows(form) ==
    [tpc \in { ReplaceUnderscore(k) : k \in { k2 \in DOMAIN form : IntParses(form[k2]) } } |->
        IntOf(form[CHOOSE k \in DOMAIN form : IntParses(form[k]) /\ ReplaceUnderscore(k) = tpc])]

\* What a client of POST /classify gets.  Loading app.py runs its import of
\* classify first, so a name classify does not define fails every request
\* before the handler body; the handler body then builds custom and calls
\* classify_code with two keyword arguments.
classify(req, txt, est) ==
    IF ~(app_imports \subseteq classify_names)
    THEN [ status |-> "ImportError", custom |-> << >>, body |-> << >> ]
    ELSE IF ~CallBinds(classify_code_params, 1, { "size_ratio", "custom_windows" })
         THEN [ status |-> "TypeError", custom |-> CustomWindows(req.form),
                body |-> << >> ]
         ELSE [ status |-> "ok", custom |-> CustomWindows(req.form),
                body |-> classify_code(txt, est) ]

Forms == UNION { [keys -> FormTexts] : keys \in SUBSET FormKeys }

SizeRatios == { SIZE_RATIO, << 0, 1 >>, << -1, 1 >> }

LongFile == [k \in 0..9 |-> "a"]

Files == Texts({ "a", "/", "*", "\n" }, MaxFileLen) \cup { LongFile }

\* A model whose estimators predict 1 for every window of the file, and one
\* whose estimators predict 0 for all of them.
AcceptAll(txt) ==
    [tpc \in mlb_classes |-> Windows(remove_comments(txt), topic_window_sizes[tpc])]

RejectAll == [tpc \in mlb_classes |-> {}]

InitApp ==
    /\ code \in Files
    /\ estimators \in { AcceptAll(code), RejectAll }
    /\ \/ /\ pc = "serving"
          /\ request \in [ size_ratio : SizeRatios, form : Forms ]
       \/ /\ pc = "cli"
          /\ request = None
    /\ response = None
    /\ output = None
    /\ topic = None
    /\ win = 0
    /\ ratio = SIZE_RATIO
    /\ clf = {}
    /\ s = 0
    /\ buf = << >>
    /\ queries = << >>
    /\ init_mask = << >>
    /\ classifications = << >>
    /\ i = 0
    /\ line_start = 0
    /\ level = 0
    /\ highlight = FALSE
    /\ final_mask = << >>
    /\ again = << >>

\* The handler of POST /classify
Classify ==
    /\ pc = "serving"
    /\ response' = classify(request, code, estimators)
    /\ pc' = "responded"
    /\ UNCHANGED << inputVars, windowVars, init_mask, scanVars, final_mask,
                    again, request, estimators, output >>

\* The command line helper, classify.py:180-189
Main ==
    /\ pc = "cli"
    /\ output' = classify_code(code, estimators)
    /\ pc' = "written"
    /\ UNCHANGED << inputVars, windowVars, init_mask, scanVars, final_mask,
                    again, request, estimators, response >>

NextApp ==
    \/ Classify
    \/ Main

SpecApp == InitApp /\ [][NextApp]_vars

\* The request overrides a window size or the ratio with a value <= 0.
NonPositiveOverride ==
    \/ request.size_ratio[1] <= 0
    \/ \E k \in DOMAIN request.form :
          IntParses(request.form[k]) /\ IntOf(request.form[k]) <= 0

\* C9: when a caller of POST /classify overrides a window size or the ratio
\* with a value <= 0, classification completes without an error and the
\* result is the one the default window sizes and the default ratio give.
C9_NonPositiveIgnored ==
    (pc = "responded" /\ NonPositiveOverride) =>
        /\ response.status = "ok"
        /\ response.body = classify_code(code, estimators)

====
